---- MODULE Spec2Model ----
\* md2pdf: the batch driver and the diagram substituter of the two generators
\* (the local generate-pdfs.js and the container generate-pdfs.js embedded in
\* README.md) and the md2pdf.sh wrapper that launches them.
\*
\* Texts (file names, paths, documents) are sequences of tokens: a token is a
\* run of characters that the program's string operations never split
\* ("FENCE" is one fence, "NL" is a line feed, ".md" an extension).
EXTENDS Integers, Sequences, FiniteSets, TLC

\* ---------------------------------------------------------------- bounds
\* minutes that pass while a batch is converted
MaxTicks == 1

\* entries of the target directory
MaxEntries == 3
\* segments a document is made of
MaxSegs == 3
\* arguments on the wrapper's command line
MaxArgs == 2

\* ------------------------------------------------------- string helpers
Min(S) == CHOOSE x \in S : \A y \in S : x <= y

\* s has sub at position i
StartsAt(s, sub, i) ==
    /\ i >= 1
    /\ i + Len(sub) - 1 <= Len(s)
    /\ \A k \in 1..Len(sub) : s[i + k - 1] = sub[k]

\* String.prototype.indexOf(sub, from), 1-based; 0 when absent
IndexOf(s, sub, from) ==
    LET cands == {i \in from..(Len(s) - Len(sub) + 1) : StartsAt(s, sub, i)}
    IN IF cands = {} THEN 0 ELSE Min(cands)

\* String.prototype.includes
includes(s, sub) == IndexOf(s, sub, 1) # 0

\* String.prototype.endsWith
endsWith(s, sub) == Len(s) >= Len(sub) /\ StartsAt(s, sub, Len(s) - Len(sub) + 1)

\* String.prototype.toLowerCase, token by token
LowerTok(t) ==
    CASE t = "README"   -> "readme"
      [] t = "Readme"   -> "readme"
      [] t = "Template" -> "template"
      [] t = "TEMPLATE" -> "template"
      [] OTHER          -> t

toLowerCase(s) == [i \in 1..Len(s) |-> LowerTok(s[i])]

\* String.prototype.replace(pattern, replacement) with a string pattern:
\* only the first occurrence is replaced
replace(s, pat, rep) ==
    LET i == IndexOf(s, pat, 1)
    IN IF i = 0 THEN s
       ELSE SubSeq(s, 1, i - 1) \o rep \o SubSeq(s, i + Len(pat), Len(s))

\* path.join(dir, name)
join(dir, name) == dir \o <<"/">> \o name

\* path.basename(p): what follows the last separator
RECURSIVE basename(_)
basename(p) ==
    LET i == IndexOf(p, <<"/">>, 1)
    IN IF i = 0 THEN p ELSE basename(SubSeq(p, i + 1, Len(p)))

\* path.basename(p, ext): the extension is dropped when the name ends with it
basenameExt(p, ext) ==
    LET b == basename(p)
    IN IF endsWith(b, ext) /\ Len(b) > Len(ext)
       THEN SubSeq(b, 1, Len(b) - Len(ext)) ELSE b

\* ------------------------------------------------- command line and disk
\* command-line words
HelpFlags == {<<"--help">>, <<"-h">>}
ModeFlags == {<<"--docker">>, <<"--pull">>, <<"--local">>}

\* target paths: a directory, a markdown file, another file, a missing path
DirTarget     == <<"docs">>
FileTarget    == <<"doc", ".md">>
OtherTarget   == <<"notes", ".txt">>
MissingTarget == <<"missing", ".md">>
Targets == {DirTarget, FileTarget, OtherTarget, MissingTarget}

\* a directory that holds files whose name begins with a dot
DotDirTarget == <<"dotdocs">>

\* fs.existsSync, and fs.statSync(p).isDirectory()
existsSync(p) == p \in {DirTarget, DotDirTarget, FileTarget, OtherTarget}
isDirectory(p) == p \in {DirTarget, DotDirTarget}

\* names the target directory can hold, in readdir order; "sub" is a
\* subdirectory, whose own entries readdirSync does not return
NameOrder == <<
    <<"README", ".md">>,
    <<"TEMPLATE", "-x", ".md">>,
    <<"Template", ".md">>,
    <<"doc", ".md">>,
    <<"notes", ".txt">>,
    <<"sub">>,
    <<"template", ".md">> >>

RECURSIVE Pick(_, _)
Pick(i, S) ==
    IF i > Len(NameOrder) THEN <<>>
    ELSE (IF i \in S THEN <<NameOrder[i]>> ELSE <<>>) \o Pick(i + 1, S)

\* what fs.readdirSync(DirTarget) can return
Listings ==
    {Pick(1, S) : S \in {T \in SUBSET (1..Len(NameOrder)) : Cardinality(T) <= MaxEntries}}

\* what fs.readdirSync(DotDirTarget) can return: ".md" is a file whose whole
\* name is the extension, ".md.md" one named by the extension twice
DotListings ==
    {<<>>, << <<".md">> >>, << <<".md", ".md">> >>, << <<"doc", ".md">> >>,
     << <<".md">>, <<".md", ".md">> >>, << <<".md">>, <<"doc", ".md">> >>,
     << <<".md", ".md">>, <<"doc", ".md">> >>,
     << <<".md">>, <<".md", ".md">>, <<"doc", ".md">> >>}

\* what fs.readdirSync(p) can return
readdirSync(p) == IF p = DotDirTarget THEN DotListings ELSE Listings

\* ------------------------------------------------------------ documents
Fence    == <<"FENCE">>
OpenTag  == <<"FENCE", "mermaid">>
OpenLine == <<"FENCE", "mermaid", "NL">>

Segments == {
    <<"FENCE", "mermaid", "NL", "graph", "FENCE">>,
    <<"FENCE", "mermaid", "NL", "seq", "FENCE">>,
    <<"FENCE", "mermaid", "NL", "graph">>,
    <<"FENCE", "mermaid", "text">>,
    <<"text">> }

RECURSIVE DocsOf(_)
DocsOf(n) ==
    IF n = 0 THEN {<<>>}
    ELSE {d \o s : d \in DocsOf(n - 1), s \in Segments}

\* texts of the single target file
Docs == UNION {DocsOf(n) : n \in 0..MaxSegs}

\* texts of the files of a directory batch
BatchDocs == {
    <<"text">>,
    <<"text", "FENCE", "mermaid", "NL", "graph", "FENCE">>,
    <<"FENCE", "mermaid", "text">> }

\* the image reference put in place of block idx: ![](<TEMP_DIR>/<base>-<idx>.svg)
ImageRef(k) == << "img" \o ToString(k) >>

\* mermaidRegex.exec(content) from lastIndex, for
\* /FENCE mermaid NL ([\s\S]*?) FENCE/g : index = 0 stands for null
exec(content, lastIndex) ==
    LET open  == IndexOf(content, OpenLine, lastIndex)
        close == IF open = 0 THEN 0 ELSE IndexOf(content, Fence, open + Len(OpenLine))
    IN IF open = 0 \/ close = 0
       THEN [index |-> 0, all |-> <<>>, body |-> <<>>, lastIndex |-> 1]
       ELSE [index     |-> open,
             all       |-> SubSeq(content, open, close),
             body      |-> SubSeq(content, open + Len(OpenLine), close - 1),
             lastIndex |-> close + 1]

\* content.includes(FENCE mermaid)
containsMermaid(content) == includes(content, OpenTag)

\* what mmdc -i <file.md> -o <out.md> writes: the document with each block
\* it rendered replaced by its image reference (outs[k] = "svg"), the other
\* blocks left as they are
RECURSIVE Spliced(_, _, _, _)
Spliced(doc, from, k, outs) ==
    LET m == exec(doc, from)
    IN IF m.index = 0 THEN SubSeq(doc, from, Len(doc))
       ELSE SubSeq(doc, from, m.index - 1)
            \o (IF outs[k] = "svg" THEN ImageRef(k) ELSE m.all)
            \o Spliced(doc, m.lastIndex, k + 1, outs)

mmdcMarkdown(doc) == Spliced(doc, 1, 1, [k \in 1..Len(doc) |-> "svg"])

\* the diagram blocks of a text, from position from on
RECURSIVE Blocks(_, _)
Blocks(doc, from) ==
    LET m == exec(doc, from)
    IN IF m.index = 0 THEN 0 ELSE 1 + Blocks(doc, m.lastIndex)

\* ------------------------------------------------------ brand configuration
\* a JavaScript object is a function from its own keys to their values; a key
\* outside the domain reads as undefined; null is the string "null"
TopKeys   == {"name", "header", "footer", "colors", "font"}
ColorKeys == {"primary", "accent", "secondary", "warning", "lightGrey", "borderGrey"}
FontKeys  == {"family", "url"}

defaultColors ==
    [primary   |-> "#1a365d", accent    |-> "#3182ce", secondary  |-> "#2c7a7b",
     warning   |-> "#c53030", lightGrey |-> "#f7fafc", borderGrey |-> "#e2e8f0"]

defaultFont == [family |-> "system-ui, -apple-system, sans-serif", url |-> "null"]

defaultBrand ==
    [name |-> "Document", header |-> "", footer |-> "",
     colors |-> defaultColors, font |-> defaultFont]

\* { ...a, ...b }
spread(a, b) ==
    [k \in DOMAIN a \cup DOMAIN b |-> IF k \in DOMAIN b THEN b[k] ELSE a[k]]

\* what a user gives for a key
UserValue(k) == "user " \o k

\* a brand.json object with the top-level keys K, the colors CK and the font
\* keys FK
UserObject(K, CK, FK) ==
    [k \in K |-> IF k = "colors" THEN [c \in CK |-> UserValue(c)]
                 ELSE IF k = "font" THEN [f \in FK |-> UserValue(f)]
                 ELSE UserValue(k)]

UserObjects ==
    {UserObject(K, CK, FK) : K \in SUBSET TopKeys, CK \in SUBSET ColorKeys,
                             FK \in SUBSET FontKeys}

\* brand.json: absent, not JSON, or the JSON value it parses to
NoObject == [k \in {} |-> ""]
BrandFiles ==
    {[kind |-> k, value |-> NoObject] : k \in {"absent", "malformed", "null", "number"}}
    \cup {[kind |-> "object", value |-> o] : o \in UserObjects}

\* loadBrandConfig with a one-level merge, { ...defaultBrand, ...brand }
loadBrandConfig_shallow(file) ==
    IF file.kind = "absent"
    THEN [brand |-> defaultBrand, warned |-> FALSE]
    ELSE IF file.kind \in {"malformed", "null"}
    THEN [brand |-> defaultBrand, warned |-> TRUE]
    ELSE [brand |-> spread(defaultBrand, file.value), warned |-> FALSE]

\* loadBrandConfig(): [brand, warned]; JSON.parse throws on text that is not
\* JSON, brand.colors throws on null; a number spreads to nothing and has no
\* colors
loadBrandConfig(file) ==
    IF file.kind = "absent"
    THEN [brand |-> defaultBrand, warned |-> FALSE]
    ELSE IF file.kind \in {"malformed", "null"}
    THEN [brand |-> defaultBrand, warned |-> TRUE]
    ELSE LET brand  == file.value
             colors == IF "colors" \in DOMAIN brand THEN brand["colors"] ELSE NoObject
         IN [brand  |-> spread(spread(defaultBrand, brand),
                               [colors |-> spread(defaultColors, colors)]),
             warned |-> FALSE]

\* loadBrand() of the container script: the same statements
loadBrand(file) ==
    IF file.kind = "absent"
    THEN [brand |-> defaultBrand, warned |-> FALSE]
    ELSE IF file.kind \in {"malformed", "null"}
    THEN [brand |-> defaultBrand, warned |-> TRUE]
    ELSE LET brand  == file.value
             colors == IF "colors" \in DOMAIN brand THEN brand["colors"] ELSE NoObject
         IN [brand  |-> spread(spread(defaultBrand, brand),
                               [colors |-> spread(defaultColors, colors)]),
             warned |-> FALSE]

\* a || b on strings: undefined, null and "" are falsy
orElse(obj, k, b) == IF k \in DOMAIN obj /\ obj[k] \notin {"", "null"} THEN obj[k] ELSE b

\* buildPdfOptions(): the parts of the options that come from the brand
buildPdfOptions(brand) ==
    [threw      |-> FALSE,
     fontFamily |-> orElse(brand["font"], "family", defaultFont.family),
     color      |-> brand["colors"]["primary"],
     header     |-> orElse(brand, "header", brand["name"]),
     footer     |-> orElse(brand, "footer", "")]

\* getPdfOptions(): fontFamily.split throws a TypeError when brand.font.family
\* is undefined
getPdfOptions(brand) ==
    IF "family" \notin DOMAIN brand["font"]
    THEN [threw |-> TRUE, fontFamily |-> "", color |-> "", header |-> "", footer |-> ""]
    ELSE [threw      |-> FALSE,
          fontFamily |-> brand["font"]["family"],
          color      |-> brand["colors"]["primary"],
          header     |-> orElse(brand, "header", brand["name"]),
          footer     |-> brand["footer"]]

\* --------------------------------------------------------------- the clock
\* an instant is a number of minutes since the epoch; a time zone is the
\* number of minutes its clocks are ahead of UTC; date is the day a clock
\* reading falls on (the day number stands for its digits YYYYMMDD), time its
\* time of day as the number whose digits are HHmm
date(minutes) == minutes \div 1440
time(minutes) == ((minutes % 1440) \div 60) * 100 + (minutes % 60)

\* the digits YYYYMMDD-HHmm of a day and a time of day
Stamp(d, t) == ToString(d) \o "-" \o ToString(t)

\* getDateTimeSuffix(): the date of toISOString (UTC), the time of
\* toTimeString (the machine's zone)
getDateTimeSuffix(instant, zone) == Stamp(date(instant), time(instant + zone))

\* getTimestamp(): date and time of toISOString
getTimestamp(instant) == Stamp(date(instant), time(instant))

\* ---------------------------------------------------------------- state
VARIABLES
    prog,            \* the program running: "sh", "local" or "container"
    argv,            \* its arguments
    pc,              \* where main() is
    exitCode,        \* the process's exit code, -1 while it runs
    usageShown,      \* usage / help text was printed
    outputDirExists, \* OUTPUT_DIR is on disk
    tempDirExists,   \* TEMP_DIR is on disk
    mkdirOutput,     \* this run created OUTPUT_DIR
    mkdirTemp,       \* this run created TEMP_DIR
    wroteConfig,     \* this run wrote the mermaid config file
    listing,         \* what readdirSync returned
    files,           \* main's files
    fileIdx,         \* the position of the for loop in files
    success,         \* main's success counter
    failed,          \* main's failed counter (local generator only)
    result,          \* per file: what mdToPdf did ("pending" before the call)
    outputs,         \* the output paths written
    content,         \* the text of the file being converted
    processedPath,   \* "input" or "temp": the path given to mdToPdf
    tempDoc,         \* the text of TEMP_DIR/<file name>
    pageInput,       \* the text behind the path last given to mdToPdf
    lastIndex,       \* mermaidRegex.lastIndex
    idx,             \* processMermaid's idx
    processed,       \* processMermaid's processed
    successCount,    \* processMermaid's successCount
    failCount,       \* processMermaid's failCount
    outcomes,        \* per block of the current file: how its mmdc call ended
    mmdcCalls,       \* mmdc invocations for the current file
    mmdcEver,        \* mmdc was invoked in this run
    timeouts,        \* per mmdc call of the current file: its timeout in ms, 0 for none
    inFlight,        \* mdToPdf calls that were started and have not settled
    pageCalls,       \* mdToPdf calls made for the current file
    written,         \* the paths written while the current file is converted
    caught,          \* an error reached main().catch
    brandFile,       \* brand.json
    brand,           \* the module's brand
    warned,          \* the brand warning was printed
    pdfOptions,      \* main's pdfOptions
    now,             \* the instant new Date() returns
    tz,              \* the machine's time zone
    dateSuffix,      \* main's dateSuffix / timestamp, "" before it is computed
    suffixAt         \* the instant it was computed at

runVars  == <<prog, argv, pc, exitCode, usageShown, caught>>
diskVars == <<outputDirExists, tempDirExists, mkdirOutput, mkdirTemp, wroteConfig>>
loopVars == <<listing, files, fileIdx, success, failed, result, outputs>>
fileVars == <<content, processedPath, tempDoc, pageInput, lastIndex, idx, processed,
              successCount, failCount, outcomes, mmdcCalls, mmdcEver, timeouts, inFlight,
              pageCalls, written>>
brandVars == <<brandFile, brand, warned, pdfOptions>>
clockVars == <<now, tz, dateSuffix, suffixAt>>
vars == <<runVars, diskVars, loopVars, fileVars, brandVars, clockVars>>

\* process.argv[2]; <<>> stands for undefined
target == IF Len(argv) >= 1 THEN argv[1] ELSE <<>>

Args == HelpFlags \cup ModeFlags \cup Targets

RECURSIVE SeqsOf(_, _)
SeqsOf(S, n) ==
    IF n = 0 THEN {<<>>}
    ELSE SeqsOf(S, n - 1) \cup {Append(q, a) : q \in {r \in SeqsOf(S, n - 1) : Len(r) = n - 1}, a \in S}

\* the state a process starts in: nothing has run, brand.json, the clock and
\* the time zone are what the machine holds
Starts(progs, brandFiles, instants, zones) ==
    /\ prog \in progs
    /\ pc = (IF prog = "sh" THEN "sh" ELSE "load")
    /\ brandFile \in brandFiles
    /\ brand = NoObject
    /\ warned = FALSE
    /\ pdfOptions = NoObject
    /\ now \in instants
    /\ tz \in zones
    /\ dateSuffix = ""
    /\ suffixAt = 0
    /\ exitCode = -1
    /\ usageShown = FALSE
    /\ caught = FALSE
    /\ outputDirExists \in BOOLEAN
    /\ tempDirExists = FALSE
    /\ mkdirOutput = FALSE
    /\ mkdirTemp = FALSE
    /\ wroteConfig = FALSE
    /\ listing = <<>>
    /\ files = <<>>
    /\ fileIdx = 1
    /\ success = 0
    /\ failed = 0
    /\ result = <<>>
    /\ outputs = {}
    /\ content = <<>>
    /\ processedPath = "input"
    /\ tempDoc = <<>>
    /\ pageInput = <<>>
    /\ lastIndex = 1
    /\ idx = 0
    /\ processed = <<>>
    /\ successCount = 0
    /\ failCount = 0
    /\ outcomes = <<>>
    /\ mmdcCalls = 0
    /\ mmdcEver = FALSE
    /\ timeouts = <<>>
    /\ inFlight = 0
    /\ pageCalls = 0
    /\ written = {}

\* brand.json of the runs: none, one that is not JSON, one that names the
\* brand, a color and a whole font
RunBrandFiles ==
    {[kind |-> "absent", value |-> NoObject], [kind |-> "malformed", value |-> NoObject],
     [kind |-> "object", value |-> UserObject({"name", "colors", "font"}, {"primary"}, FontKeys)]}

\* 2024-03-05T14:07Z
RunInstant == 19787 * 1440 + 14 * 60 + 7

Init ==
    /\ Starts({"sh", "local", "container"}, RunBrandFiles, {RunInstant}, {0})
    /\ argv \in (IF prog = "sh" THEN SeqsOf(Args, MaxArgs)
                 ELSE SeqsOf(HelpFlags \cup Targets, 1))

\* ------------------------------------------------------ shared effects
\* process.exit(code), and the exit of a process whose main() resolved (0)
exit(code) == pc' = "exited" /\ exitCode' = code

\* <OUTPUT_DIR>/<basename without .md>_<suffix>.pdf
outputPathAt(inputPath, suffix) ==
    join(<<"OUTPUT_DIR">>, basenameExt(inputPath, <<".md">>) \o <<"_", suffix, ".pdf">>)

\* the suffix computed anew, at the present instant
freshSuffix == IF prog = "local" THEN getDateTimeSuffix(now, tz) ELSE getTimestamp(now)

\* outputPath with a suffix computed for each file
outputPath_fresh(inputPath) == outputPathAt(inputPath, freshSuffix)

\* the output path of a file of this run
outputPath(inputPath) == outputPathAt(inputPath, dateSuffix)

\* TEMP_DIR, and the paths of the files written into it for an input file
TempDir == <<"TEMP_DIR">>

\* path.join(TEMP_DIR, path.basename(inputPath))
tempCopy(inputPath) == join(TempDir, basename(inputPath))

\* path.join(TEMP_DIR, <baseName>-<idx>.mmd) and the same with .svg
mmdFile(inputPath, k) ==
    join(TempDir, basenameExt(inputPath, <<".md">>) \o <<"-", ToString(k), ".mmd">>)
svgFile(inputPath, k) ==
    join(TempDir, basenameExt(inputPath, <<".md">>) \o <<"-", ToString(k), ".svg">>)

\* path.join(TEMP_DIR, 'mermaid-config.json'), 'mermaid.json' in the container
mermaidConfigPath ==
    join(TempDir, IF prog = "local" THEN <<"mermaid-config", ".json">>
                  ELSE <<"mermaid", ".json">>)

\* the texts the file being read can hold
FileDocs == IF isDirectory(target) THEN BatchDocs ELSE Docs

\* mkdir OUTPUT_DIR (when missing), mkdir TEMP_DIR, write the mermaid config
setup ==
    /\ outputDirExists' = TRUE
    /\ mkdirOutput' = (mkdirOutput \/ ~outputDirExists)
    /\ tempDirExists' = TRUE
    /\ mkdirTemp' = TRUE
    /\ wroteConfig' = TRUE

\* the state of one file's conversion before its text is looked at
fileStart(doc) ==
    /\ content' = doc
    /\ processedPath' = "input"
    /\ tempDoc' = <<>>
    /\ lastIndex' = 1
    /\ idx' = 0
    /\ processed' = doc
    /\ successCount' = 0
    /\ failCount' = 0
    /\ outcomes' = <<>>
    /\ mmdcCalls' = 0
    /\ timeouts' = <<>>
    /\ pageCalls' = 0
    /\ written' = {}

\* ------------------------------------------------- local generate-pdfs.js
\* files of a directory target: .filter(endsWith .md)
\* .filter(!includes('template') && !toLowerCase().includes('readme')).map(join)
localSelected(f) ==
    /\ endsWith(f, <<".md">>)
    /\ ~includes(f, <<"template">>)
    /\ ~includes(toLowerCase(f), <<"readme">>)

localFiles(targetPath, allFiles) ==
    LET kept == SelectSeq(allFiles, localSelected)
    IN [i \in 1..Len(kept) |-> join(targetPath, kept[i])]

\* cleanup(): remove TEMP_DIR when it exists
cleanup == tempDirExists' = FALSE

\* the module body: const brand = loadBrandConfig(), then main() is called
local_load ==
    /\ prog = "local" /\ pc = "load"
    /\ brand' = loadBrandConfig(brandFile).brand
    /\ warned' = loadBrandConfig(brandFile).warned
    /\ pc' = "start"
    /\ UNCHANGED <<prog, argv, exitCode, usageShown, caught, diskVars, loopVars,
                   fileVars, brandFile, pdfOptions, clockVars>>

\* main, the argument check
main_local_args ==
    /\ prog = "local" /\ pc = "start"
    /\ IF target = <<>>
       THEN usageShown' = TRUE /\ exit(1)
       ELSE pc' = "setup" /\ UNCHANGED <<usageShown, exitCode>>
    /\ UNCHANGED <<prog, argv, caught, diskVars, loopVars, fileVars, brandVars, clockVars>>

\* main, output and temp directories, mermaid config, pdf options, banner
main_local_setup ==
    /\ prog = "local" /\ pc = "setup"
    /\ setup
    /\ pdfOptions' = buildPdfOptions(brand)
    /\ pc' = "files"
    /\ UNCHANGED <<prog, argv, exitCode, usageShown, caught, loopVars, fileVars,
                   brandFile, brand, warned, clockVars>>

\* const dateSuffix = getDateTimeSuffix()
stampLocal ==
    /\ dateSuffix' = getDateTimeSuffix(now, tz)
    /\ suffixAt' = now

\* main, statSync, the choice of the files, the counters and dateSuffix
main_local_files ==
    /\ prog = "local" /\ pc = "files"
    /\ IF ~existsSync(target)
       THEN \* statSync throws, main() rejects
            /\ pc' = "rejected"
            /\ UNCHANGED <<exitCode, listing, files, result, dateSuffix, suffixAt>>
       ELSE IF isDirectory(target)
       THEN \E allFiles \in readdirSync(target) :
            /\ listing' = allFiles
            /\ files' = localFiles(target, allFiles)
            /\ result' = [i \in 1..Len(files') |-> "pending"]
            /\ stampLocal
            /\ pc' = "loop"
            /\ UNCHANGED exitCode
       ELSE IF endsWith(target, <<".md">>)
       THEN /\ files' = <<target>>
            /\ result' = <<"pending">>
            /\ stampLocal
            /\ pc' = "loop"
            /\ UNCHANGED <<exitCode, listing>>
       ELSE /\ exit(1)
            /\ UNCHANGED <<listing, files, result, dateSuffix, suffixAt>>
    /\ UNCHANGED <<prog, argv, usageShown, caught, diskVars, fileIdx, success, failed,
                   outputs, fileVars, brandVars, now, tz>>

\* generatePdf up to hasMermaid: the file is read; a read error is thrown out
\* of generatePdf and out of main's loop
generatePdf_read ==
    /\ prog = "local" /\ pc = "loop" /\ fileIdx <= Len(files)
    /\ \/ /\ pc' = "rejected"
          /\ UNCHANGED fileVars
       \/ \E doc \in FileDocs :
          /\ fileStart(doc)
          /\ pc' = (IF containsMermaid(doc) THEN "mermaid" ELSE "page")
          /\ UNCHANGED <<pageInput, mmdcEver, inFlight>>
    /\ UNCHANGED <<prog, argv, exitCode, usageShown, caught, diskVars, loopVars,
                   brandVars, clockVars>>

\* preprocessMermaid: one mmdc run over the whole file, execSync without a
\* timeout; "svg": it ran, "throw": execSync threw; mmdc reads -i and writes
\* the document to -o and one svg per block under -a
preprocessMermaid ==
    /\ prog = "local" /\ pc = "mermaid"
    /\ mmdcCalls' = mmdcCalls + 1
    /\ mmdcEver' = TRUE
    /\ timeouts' = Append(timeouts, 0)
    /\ \/ /\ outcomes' = Append(outcomes, "svg")
          /\ processedPath' = "temp"
          /\ tempDoc' = mmdcMarkdown(content)
          /\ written' = written \cup {tempCopy(files[fileIdx])}
                         \cup {svgFile(files[fileIdx], k) : k \in 1..Blocks(content, 1)}
       \/ /\ outcomes' = Append(outcomes, "throw")
          /\ processedPath' = "input"
          /\ UNCHANGED <<tempDoc, written>>
    /\ pc' = "page"
    /\ UNCHANGED <<prog, argv, exitCode, usageShown, caught, diskVars, loopVars,
                   content, pageInput, lastIndex, idx, processed, successCount,
                   failCount, inFlight, pageCalls, brandVars, clockVars>>

\* generatePdf_call without the await: the loop goes on to the next file while
\* mdToPdf runs
generatePdf_call_noAwait ==
    /\ prog = "local" /\ pc = "page"
    /\ pageInput' = (IF processedPath = "input" THEN content ELSE tempDoc)
    /\ inFlight' = inFlight + 1
    /\ pageCalls' = pageCalls + 1
    /\ fileIdx' = fileIdx + 1
    /\ pc' = "loop"
    /\ UNCHANGED <<prog, argv, exitCode, usageShown, caught, diskVars, listing, files,
                   success, failed, result, outputs,
                   content, processedPath, tempDoc, lastIndex, idx, processed,
                   successCount, failCount, outcomes, mmdcCalls, mmdcEver, timeouts,
                   written, brandVars, clockVars>>

\* generatePdf, mdToPdf is called and main waits for it
generatePdf_call ==
    /\ prog = "local" /\ pc = "page"
    /\ pageInput' = (IF processedPath = "input" THEN content ELSE tempDoc)
    /\ inFlight' = inFlight + 1
    /\ pageCalls' = pageCalls + 1
    /\ pc' = "await"
    /\ UNCHANGED <<prog, argv, exitCode, usageShown, caught, diskVars, loopVars,
                   content, processedPath, tempDoc, lastIndex, idx, processed,
                   successCount, failCount, outcomes, mmdcCalls, mmdcEver, timeouts,
                   written, brandVars, clockVars>>

\* generatePdf_render without the "if (pdf)" test: whatever mdToPdf returns
\* is written
generatePdf_render_unchecked ==
    /\ prog = "local" /\ pc = "await"
    /\ inFlight' = inFlight - 1
    /\ \E r \in {"ok", "null", "throw"} :
       /\ result' = [result EXCEPT ![fileIdx] = r]
       /\ IF r \in {"ok", "null"}
          THEN /\ outputs' = outputs \cup {outputPath(files[fileIdx])}
               /\ success' = success + 1
               /\ UNCHANGED failed
          ELSE /\ failed' = failed + 1
               /\ UNCHANGED <<outputs, success>>
    /\ fileIdx' = fileIdx + 1
    /\ pc' = "loop"
    /\ UNCHANGED <<prog, argv, exitCode, usageShown, caught, diskVars, listing, files,
                   content, processedPath, tempDoc, pageInput, lastIndex, idx, processed,
                   successCount, failCount, outcomes, mmdcCalls, mmdcEver, timeouts,
                   pageCalls, written, brandVars, clockVars>>

\* generatePdf_render with cleanup() called inside the loop, after each file
generatePdf_render_cleanup ==
    /\ prog = "local" /\ pc = "await"
    /\ inFlight' = inFlight - 1
    /\ \E r \in {"ok", "null", "throw"} :
       /\ result' = [result EXCEPT ![fileIdx] = r]
       /\ IF r = "ok"
          THEN /\ outputs' = outputs \cup {outputPath(files[fileIdx])}
               /\ success' = success + 1
               /\ UNCHANGED failed
          ELSE /\ failed' = failed + 1
               /\ UNCHANGED <<outputs, success>>
    /\ cleanup
    /\ fileIdx' = fileIdx + 1
    /\ pc' = "loop"
    /\ UNCHANGED <<prog, argv, exitCode, usageShown, caught, outputDirExists, mkdirOutput,
                   mkdirTemp, wroteConfig, listing, files,
                   content, processedPath, tempDoc, pageInput, lastIndex, idx, processed,
                   successCount, failCount, outcomes, mmdcCalls, mmdcEver, timeouts,
                   pageCalls, written, brandVars, clockVars>>

\* generatePdf_render counting as failed only a result that is false: the
\* undefined that generatePdf returns for an empty mdToPdf result is not counted
generatePdf_render_falseOnly ==
    /\ prog = "local" /\ pc = "await"
    /\ inFlight' = inFlight - 1
    /\ \E r \in {"ok", "null", "throw"} :
       /\ result' = [result EXCEPT ![fileIdx] = r]
       /\ IF r = "ok"
          THEN /\ outputs' = outputs \cup {outputPath(files[fileIdx])}
               /\ success' = success + 1
               /\ UNCHANGED failed
          ELSE IF r = "throw"
          THEN /\ failed' = failed + 1
               /\ UNCHANGED <<outputs, success>>
          ELSE UNCHANGED <<outputs, success, failed>>
    /\ fileIdx' = fileIdx + 1
    /\ pc' = "loop"
    /\ UNCHANGED <<prog, argv, exitCode, usageShown, caught, diskVars, listing, files,
                   content, processedPath, tempDoc, pageInput, lastIndex, idx, processed,
                   successCount, failCount, outcomes, mmdcCalls, mmdcEver, timeouts,
                   pageCalls, written, brandVars, clockVars>>

\* generatePdf once mdToPdf settled, and the counting of its result in main's
\* loop
generatePdf_render ==
    /\ prog = "local" /\ pc = "await"
    /\ inFlight' = inFlight - 1
    /\ \E r \in {"ok", "null", "throw"} :
       /\ result' = [result EXCEPT ![fileIdx] = r]
       /\ IF r = "ok"
          THEN /\ outputs' = outputs \cup {outputPath(files[fileIdx])}
               /\ success' = success + 1
               /\ UNCHANGED failed
          ELSE /\ failed' = failed + 1
               /\ UNCHANGED <<outputs, success>>
    /\ fileIdx' = fileIdx + 1
    /\ pc' = "loop"
    /\ UNCHANGED <<prog, argv, exitCode, usageShown, caught, diskVars, listing, files,
                   content, processedPath, tempDoc, pageInput, lastIndex, idx, processed,
                   successCount, failCount, outcomes, mmdcCalls, mmdcEver, timeouts,
                   pageCalls, written, brandVars, clockVars>>

\* main_local_done exiting 1 when nothing was generated
main_local_done_strict ==
    /\ prog = "local" /\ pc = "loop" /\ fileIdx > Len(files)
    /\ cleanup
    /\ exit(IF success = 0 THEN 1 ELSE 0)
    /\ UNCHANGED <<prog, argv, usageShown, caught, outputDirExists, mkdirOutput,
                   mkdirTemp, wroteConfig, loopVars, fileVars, brandVars, clockVars>>

\* main after the loop: cleanup, summary; main() resolves and node exits 0
main_local_done ==
    /\ prog = "local" /\ pc = "loop" /\ fileIdx > Len(files)
    /\ cleanup
    /\ exit(0)
    /\ UNCHANGED <<prog, argv, usageShown, caught, outputDirExists, mkdirOutput,
                   mkdirTemp, wroteConfig, loopVars, fileVars, brandVars, clockVars>>

\* main().catch: cleanup, print, exit 1
main_local_catch ==
    /\ prog = "local" /\ pc = "rejected"
    /\ caught' = TRUE
    /\ cleanup
    /\ exit(1)
    /\ UNCHANGED <<prog, argv, usageShown, outputDirExists, mkdirOutput, mkdirTemp,
                   wroteConfig, loopVars, fileVars, brandVars, clockVars>>

\* ------------------------------------- container generate-pdfs.js (README.md)
\* files of a directory target:
\* .filter(endsWith .md && !toLowerCase().includes('readme')).map(join)
containerSelected(f) ==
    /\ endsWith(f, <<".md">>)
    /\ ~includes(toLowerCase(f), <<"readme">>)

containerFiles(targetPath, allFiles) ==
    LET kept == SelectSeq(allFiles, containerSelected)
    IN [i \in 1..Len(kept) |-> join(targetPath, kept[i])]

\* process.exit(target ? 0 : 1) after showHelp()
helpExitCode(t) == IF t # <<>> THEN 0 ELSE 1

\* the module body: const brand = loadBrand(), then main() is called
container_load ==
    /\ prog = "container" /\ pc = "load"
    /\ brand' = loadBrand(brandFile).brand
    /\ warned' = loadBrand(brandFile).warned
    /\ pc' = "start"
    /\ UNCHANGED <<prog, argv, exitCode, usageShown, caught, diskVars, loopVars,
                   fileVars, brandFile, pdfOptions, clockVars>>

\* main, help and the existence check
main_container_args ==
    /\ prog = "container" /\ pc = "start"
    /\ IF target = <<>> \/ target = <<"--help">> \/ target = <<"-h">>
       THEN usageShown' = TRUE /\ exit(helpExitCode(target))
       ELSE IF ~existsSync(target)
       THEN exit(1) /\ UNCHANGED usageShown
       ELSE pc' = "setup" /\ UNCHANGED <<usageShown, exitCode>>
    /\ UNCHANGED <<prog, argv, caught, diskVars, loopVars, fileVars, brandVars, clockVars>>

\* the timeout option of processMermaid's execSync, in ms
MmdcTimeout == 120000

\* main, Setup: directories, mermaid config, pdf options, timestamp; an error
\* thrown by getPdfOptions rejects main()
main_container_setup ==
    /\ prog = "container" /\ pc = "setup"
    /\ setup
    /\ pdfOptions' = getPdfOptions(brand)
    /\ IF pdfOptions'.threw
       THEN /\ pc' = "rejected"
            /\ UNCHANGED <<dateSuffix, suffixAt>>
       ELSE /\ dateSuffix' = getTimestamp(now)
            /\ suffixAt' = now
            /\ pc' = "files"
    /\ UNCHANGED <<prog, argv, exitCode, usageShown, caught, loopVars, fileVars,
                   brandFile, brand, warned, now, tz>>

\* main, "Get files to process" and the empty-set exit
main_container_files ==
    /\ prog = "container" /\ pc = "files"
    /\ IF isDirectory(target)
       THEN \E allFiles \in readdirSync(target) :
            /\ listing' = allFiles
            /\ files' = containerFiles(target, allFiles)
            /\ result' = [i \in 1..Len(files') |-> "pending"]
            /\ IF Len(files') = 0
               THEN exit(0)
               ELSE pc' = "loop" /\ UNCHANGED exitCode
       ELSE IF endsWith(target, <<".md">>)
       THEN /\ files' = <<target>>
            /\ result' = <<"pending">>
            /\ pc' = "loop"
            /\ UNCHANGED <<exitCode, listing>>
       ELSE /\ exit(1)
            /\ UNCHANGED <<listing, files, result>>
    /\ UNCHANGED <<prog, argv, usageShown, caught, diskVars, fileIdx, success, failed,
                   outputs, fileVars, brandVars, clockVars>>

\* convertFile up to hasMermaid
convertFile_read ==
    /\ prog = "container" /\ pc = "loop" /\ fileIdx <= Len(files)
    /\ \/ /\ pc' = "rejected"
          /\ UNCHANGED fileVars
       \/ \E doc \in FileDocs :
          /\ fileStart(doc)
          /\ pc' = (IF containsMermaid(doc) THEN "mermaid" ELSE "page")
          /\ UNCHANGED <<pageInput, mmdcEver, inFlight>>
    /\ UNCHANGED <<prog, argv, exitCode, usageShown, caught, diskVars, loopVars,
                   brandVars, clockVars>>

\* processMermaid, one turn of the while loop: the next block is written to
\* <base>-<idx>.mmd and mmdc is run on it; "svg": it ran and the svg exists,
\* "nosvg": it ran and no svg exists, "throw": execSync threw (exit status,
\* timeout)
processMermaid_block ==
    /\ prog = "container" /\ pc = "mermaid"
    /\ LET match == exec(content, lastIndex)
       IN /\ match.index # 0
          /\ lastIndex' = match.lastIndex
          /\ idx' = idx + 1
          /\ mmdcCalls' = mmdcCalls + 1
          /\ mmdcEver' = TRUE
          /\ timeouts' = Append(timeouts, MmdcTimeout)
          /\ \E o \in {"svg", "nosvg", "throw"} :
             /\ outcomes' = Append(outcomes, o)
             /\ IF o = "svg"
                THEN /\ processed' = replace(processed, match.all, ImageRef(idx + 1))
                     /\ successCount' = successCount + 1
                     /\ written' = written \cup {mmdFile(files[fileIdx], idx + 1),
                                                 svgFile(files[fileIdx], idx + 1)}
                     /\ UNCHANGED failCount
                ELSE /\ failCount' = failCount + 1
                     /\ written' = written \cup {mmdFile(files[fileIdx], idx + 1)}
                     /\ UNCHANGED <<processed, successCount>>
    /\ UNCHANGED <<runVars, diskVars, loopVars, content, processedPath, tempDoc,
                   pageInput, inFlight, pageCalls, brandVars, clockVars>>

\* processMermaid_return without the successCount test: the temp copy is
\* written and returned whenever a block was found
processMermaid_return_always ==
    /\ prog = "container" /\ pc = "mermaid"
    /\ exec(content, lastIndex).index = 0
    /\ IF idx # 0
       THEN /\ tempDoc' = processed /\ processedPath' = "temp"
            /\ written' = written \cup {tempCopy(files[fileIdx])}
       ELSE processedPath' = "input" /\ UNCHANGED <<tempDoc, written>>
    /\ pc' = "page"
    /\ UNCHANGED <<prog, argv, exitCode, usageShown, caught, diskVars, loopVars,
                   content, pageInput, lastIndex, idx, processed, successCount,
                   failCount, outcomes, mmdcCalls, mmdcEver, timeouts, inFlight,
                   pageCalls, brandVars, clockVars>>

\* processMermaid after the loop: the path it returns
processMermaid_return ==
    /\ prog = "container" /\ pc = "mermaid"
    /\ exec(content, lastIndex).index = 0
    /\ IF idx # 0 /\ successCount > 0
       THEN /\ tempDoc' = processed /\ processedPath' = "temp"
            /\ written' = written \cup {tempCopy(files[fileIdx])}
       ELSE processedPath' = "input" /\ UNCHANGED <<tempDoc, written>>
    /\ pc' = "page"
    /\ UNCHANGED <<prog, argv, exitCode, usageShown, caught, diskVars, loopVars,
                   content, pageInput, lastIndex, idx, processed, successCount,
                   failCount, outcomes, mmdcCalls, mmdcEver, timeouts, inFlight,
                   pageCalls, brandVars, clockVars>>

\* convertFile, mdToPdf is called and main waits for it
convertFile_call ==
    /\ prog = "container" /\ pc = "page"
    /\ pageInput' = (IF processedPath = "input" THEN content ELSE tempDoc)
    /\ inFlight' = inFlight + 1
    /\ pageCalls' = pageCalls + 1
    /\ pc' = "await"
    /\ UNCHANGED <<prog, argv, exitCode, usageShown, caught, diskVars, loopVars,
                   content, processedPath, tempDoc, lastIndex, idx, processed,
                   successCount, failCount, outcomes, mmdcCalls, mmdcEver, timeouts,
                   written, brandVars, clockVars>>

\* convertFile once mdToPdf settled, and the counting of its result in main's
\* loop
convertFile_render ==
    /\ prog = "container" /\ pc = "await"
    /\ inFlight' = inFlight - 1
    /\ \E r \in {"ok", "null", "throw"} :
       /\ result' = [result EXCEPT ![fileIdx] = r]
       /\ IF r = "ok"
          THEN /\ outputs' = outputs \cup {outputPath(files[fileIdx])}
               /\ success' = success + 1
          ELSE UNCHANGED <<outputs, success>>
    /\ fileIdx' = fileIdx + 1
    /\ pc' = "loop"
    /\ UNCHANGED <<prog, argv, exitCode, usageShown, caught, diskVars, listing, files,
                   failed, content, processedPath, tempDoc, pageInput, lastIndex, idx,
                   processed, successCount, failCount, outcomes, mmdcCalls, mmdcEver,
                   timeouts, pageCalls, written, brandVars, clockVars>>

\* main after the loop: rmSync(TEMP_DIR), summary; main() resolves, exit 0
main_container_done ==
    /\ prog = "container" /\ pc = "loop" /\ fileIdx > Len(files)
    /\ tempDirExists' = FALSE
    /\ exit(0)
    /\ UNCHANGED <<prog, argv, usageShown, caught, outputDirExists, mkdirOutput,
                   mkdirTemp, wroteConfig, loopVars, fileVars, brandVars, clockVars>>

\* main_container_catch without a failing exit code
main_container_catch_exit0 ==
    /\ prog = "container" /\ pc = "rejected"
    /\ caught' = TRUE
    /\ exit(0)
    /\ UNCHANGED <<prog, argv, usageShown, diskVars, loopVars, fileVars, brandVars,
                   clockVars>>

\* main().catch: print, exit 1
main_container_catch ==
    /\ prog = "container" /\ pc = "rejected"
    /\ caught' = TRUE
    /\ exit(1)
    /\ UNCHANGED <<prog, argv, usageShown, diskVars, loopVars, fileVars, brandVars,
                   clockVars>>

\* ------------------------------------------------------------- md2pdf.sh
\* the while loop over the arguments: the first help flag ends the script;
\* st is [help, force_mode, target]
RECURSIVE parseArgs(_, _)
parseArgs(args, st) ==
    IF Len(args) = 0 THEN st
    ELSE IF Head(args) \in HelpFlags THEN [st EXCEPT !.help = TRUE]
    ELSE IF Head(args) \in ModeFlags
    THEN parseArgs(Tail(args), [st EXCEPT !.force_mode = Head(args)])
    ELSE parseArgs(Tail(args), [st EXCEPT !.target = Head(args)])

\* main of md2pdf.sh: parse, validate, choose docker or node, run it
sh_main ==
    /\ prog = "sh" /\ pc = "sh"
    /\ LET st == parseArgs(argv, [help |-> FALSE, force_mode |-> <<>>, target |-> <<>>])
           run_docker == /\ prog' = "container"
                         /\ argv' = <<st.target>>
                         /\ pc' = "load"
                         /\ outputDirExists' = TRUE
                         /\ mkdirOutput' = (mkdirOutput \/ ~outputDirExists)
                         /\ UNCHANGED <<exitCode, usageShown>>
           run_local  == /\ prog' = "local"
                         /\ argv' = <<st.target>>
                         /\ pc' = "load"
                         /\ UNCHANGED <<exitCode, usageShown, outputDirExists, mkdirOutput>>
           fail       == /\ exit(1)
                         /\ UNCHANGED <<prog, argv, usageShown, outputDirExists, mkdirOutput>>
       IN IF st.help
          THEN /\ usageShown' = TRUE /\ exit(0)
               /\ UNCHANGED <<prog, argv, outputDirExists, mkdirOutput>>
          ELSE IF st.target = <<>>
          THEN /\ usageShown' = TRUE /\ exit(1)
               /\ UNCHANGED <<prog, argv, outputDirExists, mkdirOutput>>
          ELSE IF ~existsSync(st.target)
          THEN fail
          ELSE \E has_docker \in BOOLEAN, has_node \in BOOLEAN :
               IF st.force_mode \in {<<"--pull">>, <<"--docker">>}
               THEN IF has_docker THEN run_docker ELSE fail
               ELSE IF st.force_mode = <<"--local">>
               THEN IF has_node THEN run_local ELSE fail
               ELSE IF has_docker THEN run_docker
               ELSE IF has_node THEN run_local
               ELSE fail
    /\ UNCHANGED <<caught, tempDirExists, mkdirTemp, wroteConfig, loopVars, fileVars,
                   brandVars, clockVars>>

\* ------------------------------------------------------- specification
Next ==
    \/ sh_main
    \/ local_load
    \/ main_local_args
    \/ main_local_setup
    \/ main_local_files
    \/ generatePdf_read
    \/ preprocessMermaid
    \/ generatePdf_call
    \/ generatePdf_render
    \/ main_local_done
    \/ main_local_catch
    \/ container_load
    \/ main_container_args
    \/ main_container_setup
    \/ main_container_files
    \/ convertFile_read
    \/ processMermaid_block
    \/ processMermaid_return
    \/ convertFile_call
    \/ convertFile_render
    \/ main_container_done
    \/ main_container_catch

Spec == Init /\ [][Next]_vars

\* the generators started on one file with any brand.json, up to the end of
\* main's setup
InitBrand ==
    /\ Starts({"local", "container"}, BrandFiles, {RunInstant}, {0})
    /\ argv = <<FileTarget>>

NextBrand ==
    \/ local_load
    \/ main_local_args
    \/ main_local_setup
    \/ container_load
    \/ main_container_args
    \/ main_container_setup
    \/ main_container_catch

SpecBrand == InitBrand /\ [][NextBrand]_vars

\* a minute passes while the batch is converted
Tick ==
    /\ pc \in {"files", "loop", "mermaid", "page", "await"}
    /\ dateSuffix # ""
    /\ now < suffixAt + MaxTicks
    /\ now' = now + 1
    /\ UNCHANGED <<runVars, diskVars, loopVars, fileVars, brandVars, tz, dateSuffix, suffixAt>>

\* the instants and time zones of the timed runs: 2024-03-05T23:30Z; UTC and
\* UTC+2
Instants == {19787 * 1440 + 23 * 60 + 30}
Zones    == {0, 120}

\* the generators started on a directory at any of these instants, in any of
\* these zones, without a brand.json, with the clock running
InitTime ==
    /\ Starts({"local", "container"}, {[kind |-> "absent", value |-> NoObject]},
              Instants, Zones)
    /\ argv = <<DirTarget>>

NextNode ==
    \/ local_load
    \/ main_local_args
    \/ main_local_setup
    \/ main_local_files
    \/ generatePdf_read
    \/ preprocessMermaid
    \/ generatePdf_call
    \/ generatePdf_render
    \/ main_local_done
    \/ main_local_catch
    \/ container_load
    \/ main_container_args
    \/ main_container_setup
    \/ main_container_files
    \/ convertFile_read
    \/ processMermaid_block
    \/ processMermaid_return
    \/ convertFile_call
    \/ convertFile_render
    \/ main_container_done
    \/ main_container_catch

NextTime == NextNode \/ Tick

SpecTime == InitTime /\ [][NextTime]_vars

\* the generators started on a directory that holds dot files
InitDot ==
    /\ Starts({"local", "container"}, {[kind |-> "absent", value |-> NoObject]},
              {RunInstant}, {0})
    /\ argv = <<DotDirTarget>>

SpecDot == InitDot /\ [][NextNode]_vars

\* ------------------------------------------------------------ properties
node == prog \in {"local", "container"}

\* the files mdToPdf was called for, and those it returned a pdf for
called   == {i \in DOMAIN result : result[i] # "pending"}
rendered == {i \in DOMAIN result : result[i] = "ok"}

\* no file was converted and no rendering service was invoked
nothingProcessed == called = {} /\ outputs = {} /\ ~mmdcEver

\* the selection the specification asks of a directory: .md entries whose name
\* holds neither "template" nor "readme", letter case ignored
specSelected(f) ==
    /\ endsWith(f, <<".md">>)
    /\ ~includes(toLowerCase(f), <<"template">>)
    /\ ~includes(toLowerCase(f), <<"readme">>)

\* C1: once TEMP_DIR was created, the process never exits leaving it on disk.
C1_TempDirRemovedAtExit ==
    (pc = "exited" /\ mkdirTemp) => ~tempDirExists

\* C2: a batch is always worked through to the end: at exit every file was
\* visited, a file has its output exactly when mdToPdf returned a pdf for it,
\* the counters count each file once, and no error ended the run early.
C2_BatchIsolation ==
    (pc = "exited" /\ node /\ Len(files) > 0) =>
        /\ ~caught
        /\ fileIdx = Len(files) + 1
        /\ called = DOMAIN result
        /\ \A i \in DOMAIN result : (outputPath(files[i]) \in outputs) <=> (result[i] = "ok")
        /\ success = Cardinality(rendered)
        /\ prog = "local" => failed = Cardinality(called \ rendered)

\* C3: the text processMermaid produces is the original with the k-th block
\* replaced by the k-th image reference exactly when the k-th render produced
\* an svg, everything else untouched; the counters count the renders.
C3_PositionExact ==
    (prog = "container" /\ pc = "page" /\ idx > 0) =>
        /\ processed = Spliced(content, 1, 1, outcomes)
        /\ successCount = Cardinality({k \in DOMAIN outcomes : outcomes[k] = "svg"})
        /\ failCount = Cardinality({k \in DOMAIN outcomes : outcomes[k] # "svg"})

\* C4: a document in which no diagram block is recognised reaches page
\* rendering unchanged and without any mmdc invocation.
C4_NoOpFastPath ==
    (node /\ pc = "page" /\ exec(content, 1).index = 0) =>
        /\ mmdcCalls = 0
        /\ (IF processedPath = "input" THEN content ELSE tempDoc) = content

\* C5: an output path is on disk only if mdToPdf returned a pdf for its file;
\* a call that threw or returned nothing leaves no output for the file.
C5_AllOrNothing ==
    /\ \A i \in DOMAIN result : (outputPath(files[i]) \in outputs) => (result[i] = "ok")
    /\ outputs \subseteq {outputPath(files[i]) : i \in called}

C5_Witness ==
    /\ pc = "exited"
    /\ \E i \in DOMAIN result : result[i] = "throw" /\ outputPath(files[i]) \notin outputs
    /\ \E i \in DOMAIN result : result[i] = "null" /\ outputPath(files[i]) \notin outputs
    /\ \E i \in DOMAIN result : result[i] = "ok" /\ outputPath(files[i]) \in outputs

\* C6: for a directory target the files are exactly the entries that end in
\* .md and hold neither "template" nor "readme" in any letter case.
C6_DirectoryFilter ==
    (node /\ isDirectory(target)) =>
        LET kept == SelectSeq(listing, specSelected)
        IN files = [i \in 1..Len(kept) |-> join(target, kept[i])]

\* C7: a run on a missing target exits non-zero having created neither
\* OUTPUT_DIR nor TEMP_DIR nor the mermaid config, and having processed nothing.
C7_MissingTargetAborts ==
    (pc = "exited" /\ node /\ target \in Targets /\ ~existsSync(target)) =>
        /\ exitCode # 0
        /\ ~mkdirOutput /\ ~mkdirTemp /\ ~wroteConfig
        /\ nothingProcessed

\* the invocation names no target
noTarget ==
    IF prog = "sh"
    THEN LET st == parseArgs(argv, [help |-> FALSE, force_mode |-> <<>>, target |-> <<>>])
         IN ~st.help /\ st.target = <<>>
    ELSE target = <<>>

\* C8: a help flag as first argument prints usage and exits 0 with nothing
\* processed; no target at all prints usage and exits non-zero.
C8_HelpAndNoTarget ==
    pc = "exited" =>
        /\ (Len(argv) >= 1 /\ argv[1] \in HelpFlags) =>
               (usageShown /\ exitCode = 0 /\ nothingProcessed)
        /\ noTarget => (usageShown /\ exitCode # 0)

\* the target exists and is neither a directory nor a path ending in .md
unsupported == existsSync(target) /\ ~isDirectory(target) /\ ~endsWith(target, <<".md">>)

\* C9: a run on a target path exits non-zero exactly when the target is missing,
\* is unsupported, or an error reached main().catch; every other run (the loop
\* ran to its end with any mix of results, or there was no file to convert)
\* exits 0; an unsupported target has nothing processed.
C9_ExitCodes ==
    (pc = "exited" /\ node /\ target \in Targets) =>
        /\ (~existsSync(target) \/ unsupported \/ caught) => exitCode # 0
        /\ ~(~existsSync(target) \/ unsupported \/ caught) =>
               (exitCode = 0 /\ fileIdx = Len(files) + 1)
        /\ unsupported => nothingProcessed

C9_Witness ==
    /\ pc = "exited" /\ exitCode = 0 /\ Len(files) >= 2
    /\ rendered # {} /\ called \ rendered # {}

\* C10: a directory target from which no file was selected ends with exit code
\* 0, no rendering service invoked, no output written, both counters at 0.
C10_EmptyFileSet ==
    (pc = "exited" /\ node /\ isDirectory(target) /\ files = <<>>) =>
        /\ exitCode = 0
        /\ nothingProcessed
        /\ success = 0 /\ failed = 0

C10_Witness ==
    /\ pc = "exited" /\ node /\ isDirectory(target) /\ files = <<>>
    /\ Len(listing) >= 2

\* brand.json as the user wrote it, {} when there is none
userBrand == IF brandFile.kind = "object" THEN brandFile.value ELSE NoObject

\* the user's value of key k of the object at key o, else the default's
userOrDefault(o, k) ==
    IF o \in DOMAIN userBrand /\ k \in DOMAIN userBrand[o]
    THEN userBrand[o][k] ELSE defaultBrand[o][k]

\* main got its pdf options
optionsBuilt == DOMAIN pdfOptions # {}

\* C11: for a brand.json that is missing or an object with any subset of the
\* fields, every field of the resolved brand is defined and is the user's value
\* or the default, and building the pdf options does not throw.
C11_TotalDefaulting ==
    (node /\ pc \notin {"sh", "load"} /\ brandFile.kind \in {"absent", "object"}) =>
        /\ \A k \in {"name", "header", "footer"} :
               /\ k \in DOMAIN brand
               /\ brand[k] = (IF k \in DOMAIN userBrand THEN userBrand[k] ELSE defaultBrand[k])
        /\ \A c \in ColorKeys :
               c \in DOMAIN brand["colors"] /\ brand["colors"][c] = userOrDefault("colors", c)
        /\ \A f \in FontKeys :
               f \in DOMAIN brand["font"] /\ brand["font"][f] = userOrDefault("font", f)
        /\ optionsBuilt => ~pdfOptions.threw

\* the color keys brand.json gives
userColorKeys == IF "colors" \in DOMAIN userBrand THEN DOMAIN userBrand["colors"] ELSE {}

\* C12: whatever subset of the six color keys brand.json gives, the resolved
\* brand has the user's value for the keys given and the default for the others.
C12_MergeIndependence ==
    (node /\ pc \notin {"sh", "load"} /\ brandFile.kind = "object") =>
        /\ DOMAIN brand["colors"] = ColorKeys
        /\ \A c \in ColorKeys :
               brand["colors"][c] = (IF c \in userColorKeys THEN userBrand["colors"][c]
                                    ELSE defaultColors[c])

C12_Witness ==
    /\ node /\ pc = "files" /\ userColorKeys = {"accent"}
    /\ brand["colors"]["accent"] = UserValue("accent")
    /\ brand["colors"]["primary"] = defaultColors["primary"]

\* C13: when brand.json is not JSON, or is JSON for something that is not an
\* object, loading warns and yields exactly the defaults, nothing is thrown and
\* main goes on to its files.
C13_MalformedNonFatal ==
    (node /\ pc \notin {"sh", "load"} /\ brandFile.kind \in {"malformed", "null", "number"}) =>
        /\ warned
        /\ brand = defaultBrand
        /\ pc # "rejected" /\ ~caught
        /\ optionsBuilt => ~pdfOptions.threw

\* the suffix as the program computes it at instant t
suffixOf(t) == IF prog = "local" THEN getDateTimeSuffix(t, tz) ELSE getTimestamp(t)

\* C14: the suffix is computed once, before any file is touched, and never
\* again; every output of the run carries it, however far the clock has moved.
C14_SharedTimestamp ==
    /\ [](node =>
            /\ dateSuffix = "" => (called = {} /\ content = <<>> /\ ~mmdcEver /\ inFlight = 0)
            /\ dateSuffix # "" => (dateSuffix = suffixOf(suffixAt) /\ suffixAt <= now)
            /\ outputs = {outputPathAt(files[i], dateSuffix) : i \in rendered})
    /\ [][dateSuffix # "" => (dateSuffix' = dateSuffix /\ suffixAt' = suffixAt)]_vars

C14_Witness ==
    /\ pc = "exited" /\ Cardinality(outputs) >= 2
    /\ now > suffixAt /\ dateSuffix # freshSuffix

\* the instant t written as YYYYMMDD-HHmm by the clocks of one zone
zoneStamp(t, zone) == Stamp(date(t + zone), time(t + zone))

\* C15: every output is <OUTPUT_DIR>/<base>_<suffix>.pdf, and the suffix is
\* the instant it was computed at as the clocks of one zone (UTC, or the
\* machine's zone) show it, date and time alike.
C15_OutputNaming ==
    node =>
        /\ dateSuffix # "" => \E zone \in {0, tz} : dateSuffix = zoneStamp(suffixAt, zone)
        /\ \A i \in rendered :
               join(<<"OUTPUT_DIR">>,
                    basenameExt(files[i], <<".md">>) \o <<"_", dateSuffix, ".pdf">>) \in outputs

\* C16: at most one rendering call is in progress at any time; while a file is
\* worked on, every file before it has its page rendering settled and no file
\* after it was begun; each mmdc call of a file ended before the next began.
C16_Sequential ==
    node =>
        /\ inFlight <= 1
        /\ inFlight = 1 <=> pc = "await"
        /\ \A i \in DOMAIN result :
               /\ i < fileIdx => result[i] # "pending"
               /\ i >= fileIdx => result[i] = "pending"
        /\ pc \in {"mermaid", "page", "await"} =>
               (fileIdx \in DOMAIN result /\ Len(outcomes) = mmdcCalls)

C16_Witness ==
    /\ pc = "await" /\ inFlight = 1 /\ fileIdx = 2 /\ mmdcCalls >= 1
    /\ result[1] # "pending" /\ Len(files) = 3

\* C17: when a file reaches page rendering, mmdc has run exactly once for each
\* of its diagram blocks, every run under the 120 s timeout, whatever the runs
\* did; mdToPdf is called at most once for a file, and once the file is done
\* exactly once.
C17_OneAttempt ==
    node =>
        /\ pc \in {"page", "await"} =>
               /\ mmdcCalls = Blocks(content, 1)
               /\ Len(outcomes) = mmdcCalls
               /\ \A k \in DOMAIN timeouts : timeouts[k] = MmdcTimeout
        /\ pageCalls <= 1
        /\ pc = "await" => pageCalls = 1
        /\ mmdcCalls <= Blocks(content, 1)

\* no diagram of the current file was rendered
noBlockRendered == \A k \in DOMAIN outcomes : outcomes[k] # "svg"

C19_ScratchOutlivesRenders ==
    node =>
        /\ pc \in {"loop", "mermaid", "page", "await"} => (tempDirExists /\ wroteConfig)
        /\ inFlight > 0 => tempDirExists
        /\ (called # {} \/ mmdcEver) => (mkdirTemp /\ wroteConfig)
        /\ (mkdirTemp /\ ~tempDirExists) => (pc = "exited" /\ inFlight = 0)
        /\ (mkdirTemp /\ ~tempDirExists /\ ~caught) =>
               (fileIdx = Len(files) + 1 /\ called = DOMAIN result)

C19_Witness ==
    /\ pc = "exited" /\ mkdirTemp /\ ~tempDirExists /\ ~caught
    /\ Len(files) = 3 /\ called = {1, 2, 3} /\ mmdcEver

\* C20: in the local generator, once k files went through the loop the two
\* counters add up to k, at the summary to the number of files; a file is in
\* success exactly if its output was written, every other file that went
\* through (mdToPdf threw or returned nothing) is in failed; no counter ever
\* goes down.
C20_CounterAccounting ==
    /\ [](prog = "local" =>
            /\ success + failed = fileIdx - 1
            /\ (pc = "exited" /\ exitCode = 0) => success + failed = Len(files)
            /\ success = Cardinality({i \in called : outputPath(files[i]) \in outputs})
            /\ failed = Cardinality({i \in called : result[i] \in {"null", "throw"}})
            /\ \A i \in called : (outputPath(files[i]) \in outputs) <=> (result[i] = "ok"))
    /\ [][prog = "local" => (success' >= success /\ failed' >= failed)]_vars

C20_Witness ==
    /\ prog = "local" /\ pc = "exited" /\ exitCode = 0
    /\ result = <<"null", "ok", "throw">>
    /\ success = 1 /\ failed = 2

\* every path the run has written: the mermaid config, what the conversion of
\* the current file wrote, the pdfs
allWritten ==
    (IF wroteConfig THEN {mermaidConfigPath} ELSE {}) \cup written \cup outputs

\* p is a file directly inside the directory dir
inside(p, dir) ==
    /\ Len(p) > Len(dir) + 1
    /\ StartsAt(p, dir \o <<"/">>, 1)
    /\ ~includes(SubSeq(p, Len(dir) + 2, Len(p)), <<"/">>)

\* C21: whatever the renders do, every file written is inside TEMP_DIR or is
\* a <base>_<suffix>.pdf inside OUTPUT_DIR; no input file and nothing under
\* the target is written; two files of a batch that were both converted were
\* written to different output paths.
C21_SourcesUntouched ==
    node =>
        /\ \A p \in allWritten \ outputs : inside(p, TempDir)
        /\ \A p \in outputs :
               /\ inside(p, <<"OUTPUT_DIR">>)
               /\ \E i \in rendered :
                      p = join(<<"OUTPUT_DIR">>,
                               basenameExt(files[i], <<".md">>) \o <<"_", dateSuffix, ".pdf">>)
        /\ \A p \in allWritten :
               /\ \A i \in DOMAIN files : p # files[i]
               /\ target # <<>> => ~StartsAt(p, target, 1)
        /\ \A i \in rendered : \A j \in rendered :
               i # j => outputPath(files[i]) # outputPath(files[j])

====
